---- MODULE Spec2Model ----
(***************************************************************************)
(* Authentication service: per-user signing keys, access/refresh token     *)
(* lifecycle (AuthService), the user store (RegistrationRepository) and    *)
(* the registration operations that change what AuthService reads.         *)
(*                                                                         *)
(* Each request handler is one action; its body is an operator that maps   *)
(* the stored users and the request to the stored users afterwards, the    *)
(* outcome and the tokens handed to the caller.                            *)
(***************************************************************************)
EXTENDS Integers, FiniteSets, Sequences, TLC

VARIABLES
    db,         \* the users table: id -> row
    issued,     \* every token string handed to a caller so far
    now,        \* wall clock, seconds
    last,       \* the last request and its outcome
    account,    \* one User account entity held in memory
    verif,      \* the e-mail verification columns of the users table: id -> token, expiry
    authToken,  \* one AuthToken entity held in memory
    calls       \* the AuthService calls in flight: caller -> where its handler stands

vars == <<db, issued, now, last, account, verif, authToken, calls>>

\* what the handlers of AuthService never touch
others == <<account, verif, authToken, calls>>

----------------------------------------------------------------------------
(* Bounds of the model *)

MaxTick == 1
MaxIssued == 4
MaxFailedAttempts == 6
MaxRegisterTime == 0

UserIds == {"u1", "u2"}
GhostId == "u9"
Emails == {"a@x", "b@x"}
Passwords == {"p1", "p2"}
RegisterPasswords == {"p1"}
RenewalCodes == {"111111"}
VerificationTokens == {"v1", "v2", "v3"}
UnknownToken == "v0"
WrongCode == "000000"

----------------------------------------------------------------------------
(* Program constants *)

AccessTtl == 3600
RefreshTtl == 604800
RenewalTtl == 3600
LockThreshold == 5
LockSeconds == 1800
VerificationTtl == 86400

Times ==
    {k * AccessTtl : k \in 0..MaxTick} \cup {RefreshTtl + k * AccessTtl : k \in 0..MaxTick}

None == "none"
NoTime == -1
ForgedKey == 0
NoKey == -1
Keys == 1..(2 * Cardinality(UserIds) + 2)

----------------------------------------------------------------------------
(* Outcomes *)

Res(kind, msg) == [kind |-> kind, msg |-> msg, active |-> FALSE]
Ok == Res("ok", "")
InvalidCredentials == Res("Unauthorized", "Invalid credentials")
AccountDeactivated == Res("Unauthorized", "Account is deactivated")
InvalidRefreshToken == Res("Unauthorized", "Invalid refresh token")
UserNotFound == Res("NotFound", "User not found")
EmailConflict == Res("Conflict", "Email address already registered")
InvalidVerificationToken == Res("NotFound", "Invalid verification token")
VerificationExpired == Res("BadRequest", "Verification token has expired")
AlreadyVerified == Res("BadRequest", "Email already verified")
NoRenewalRequested == Res("Unauthorized", "No renewal verification code requested")
InvalidCode == Res("Unauthorized", "Invalid verification code")
CodeExpired == Res("Unauthorized", "Verification code has expired")
Introspection(active, msg) == [kind |-> "introspect", msg |-> msg, active |-> active]

Out(d, r, o) == [db |-> d, res |-> r, out |-> o]

----------------------------------------------------------------------------
(* Credential hasher: bcrypt.hash / bcrypt.compare *)

Hash(p) == <<"bcrypt", p>>
Compare(p, h) == h = Hash(p)

----------------------------------------------------------------------------
(* Token codec: jwtService.signAsync / decode / verifyAsync *)

Token(sub, typ, key, exp) ==
    [fmt |-> "jwt", sub |-> sub, typ |-> typ, key |-> key, exp |-> exp]

Callers == {"c1"}

Idle == [op |-> "idle"]

Garbage == [fmt |-> "garbage", sub |-> None, typ |-> None, key |-> ForgedKey, exp |-> NoTime]

\* what a caller can present without knowing any key
ForgedTokens ==
    {Garbage} \cup {Token(s, "refresh", ForgedKey, RefreshTtl + MaxTick * AccessTtl + 1) :
                        s \in {None, "u1", GhostId}}

\* decode: the payload, without any check; nothing for a string that is no JWT
decode(tok) == IF tok.fmt = "jwt" THEN {tok} ELSE {}

\* verifyAsync(token, {secret}): signature under the secret, and not expired
\* (algorithm, issuer and audience are the same configuration values on every
\* sign and verify call, and a caller without the key cannot sign others)
jwtVerify(tok, secret, t) == tok.fmt = "jwt" /\ tok.key = secret /\ t < tok.exp

----------------------------------------------------------------------------
(* RegistrationRepository *)

\* toUserEntity: the row as the service sees it; the renewal columns are not copied
toUserEntity(row) ==
    [row EXCEPT !.renewalVerificationToken = None,
                !.renewalVerificationTokenExpiresAt = NoTime]

findById(d, id) == IF id \in DOMAIN d THEN {toUserEntity(d[id])} ELSE {}

findByEmail(d, email) == {toUserEntity(d[id]) : id \in {i \in DOMAIN d : d[i].email = email}}

Has(updates, f) == f \in DOMAIN updates

\* variant: the two signing keys are columns the update writes as well
update_writesKeys(d, id, updates) ==
    [d EXCEPT ![id] =
        [@ EXCEPT
            !.email = IF Has(updates, "email") THEN updates.email ELSE @,
            !.password = IF Has(updates, "password") THEN updates.password ELSE @,
            !.secretKey = IF Has(updates, "secretKey") THEN updates.secretKey ELSE @,
            !.refreshSecretKey =
                IF Has(updates, "refreshSecretKey") THEN updates.refreshSecretKey ELSE @,
            !.isActive = IF Has(updates, "isActive") THEN updates.isActive ELSE @,
            !.emailVerified =
                IF Has(updates, "emailVerified") THEN updates.emailVerified ELSE @]]

\* update(id, updates): copies the listed fields that are defined (the audit
\* timestamps are not part of this model; a verification token or expiry in
\* `updates` is the one toUserEntity read from the same row)
update(d, id, updates) ==
    [d EXCEPT ![id] =
        [@ EXCEPT
            !.email = IF Has(updates, "email") THEN updates.email ELSE @,
            !.password = IF Has(updates, "password") THEN updates.password ELSE @,
            !.isActive = IF Has(updates, "isActive") THEN updates.isActive ELSE @,
            !.emailVerified =
                IF Has(updates, "emailVerified") THEN updates.emailVerified ELSE @]]

\* create(user): a new row under a new id
create(d, id, user) ==
    [i \in DOMAIN d \cup {id} |->
        IF i = id
        THEN [user EXCEPT !.id = id,
                          !.renewalVerificationToken = None,
                          !.renewalVerificationTokenExpiresAt = NoTime]
        ELSE d[i]]

----------------------------------------------------------------------------
(* UserEntity *)

UsedKeys(d) == {d[i].secretKey : i \in DOMAIN d} \cup {d[i].refreshSecretKey : i \in DOMAIN d}

\* a new random secret: a key no user holds (the least such, keys being opaque)
generateSecretKey(used) ==
    CHOOSE k \in Keys \ used : \A j \in Keys \ used : k <= j

regenerateSecretKey(user, used) ==
    [user EXCEPT !.secretKey = generateSecretKey(used)]

regenerateRefreshSecretKey(user, used) ==
    [user EXCEPT !.refreshSecretKey = generateSecretKey(used)]

----------------------------------------------------------------------------
(* User (auth module): the status gate *)

Field(data, name, default) == IF name \in DOMAIN data THEN data[name] ELSE default

\* new User(data): the defaults the constructor fills in for absent fields
User(data) ==
    [password |-> Field(data, "password", None),
     isActive |-> Field(data, "isActive", TRUE),
     emailVerified |-> Field(data, "emailVerified", FALSE),
     authStatus |-> Field(data, "authStatus", "pending"),
     failedLoginAttempts |-> Field(data, "failedLoginAttempts", 0),
     lockedUntil |-> Field(data, "lockedUntil", NoTime),
     lockReason |-> Field(data, "lockReason", None),
     lastLoginAt |-> Field(data, "lastLoginAt", NoTime),
     lastLoginIp |-> Field(data, "lastLoginIp", None),
     verificationToken |-> Field(data, "verificationToken", None),
     verificationTokenExpiresAt |-> Field(data, "verificationTokenExpiresAt", NoTime),
     resetPasswordToken |-> Field(data, "resetPasswordToken", None),
     resetPasswordExpiresAt |-> Field(data, "resetPasswordExpiresAt", NoTime)]

\* variant: the account is still locked at the instant lockedUntil
isLocked_inclusive(u, t) == IF u.lockedUntil = NoTime THEN FALSE ELSE t <= u.lockedUntil

isLocked(u, t) == IF u.lockedUntil = NoTime THEN FALSE ELSE t < u.lockedUntil

canAuthenticate(u, t) == u.isActive /\ u.authStatus = "active" /\ ~isLocked(u, t)

AuthStatus == {"active", "inactive", "pending", "suspended", "blocked"}

AccountLockReason == {"multiple_failed_attempts", "administrative_action"}

AUTH_STATUS_TRANSITIONS ==
    [s \in AuthStatus |->
        CASE s = "pending" -> {"active", "blocked"}
          [] s = "active" -> {"inactive", "suspended", "blocked"}
          [] s = "inactive" -> {"active", "blocked"}
          [] s = "suspended" -> {"active", "blocked"}
          [] s = "blocked" -> {}]

canTransitionTo(u, newStatus) == newStatus \in AUTH_STATUS_TRANSITIONS[u.authStatus]

\* a method of the entity: the entity afterwards and whether it threw
Did(u, r) == [user |-> u, res |-> r]
CannotTransition(verb) == Res("Error", "Cannot " \o verb \o " user")

resetFailedAttempts(u) == [u EXCEPT !.failedLoginAttempts = 0]

unlock(u) == [u EXCEPT !.lockedUntil = NoTime, !.lockReason = None]

lockAccount(u, reason, t) == [u EXCEPT !.lockedUntil = t + LockSeconds, !.lockReason = reason]

\* variant: activation leaves the lock in place
activate_keepsLock(u) ==
    IF canTransitionTo(u, "active")
    THEN Did(resetFailedAttempts([u EXCEPT !.authStatus = "active"]), Ok)
    ELSE Did(u, CannotTransition("activate"))

activate(u) ==
    IF canTransitionTo(u, "active")
    THEN Did(unlock(resetFailedAttempts([u EXCEPT !.authStatus = "active"])), Ok)
    ELSE Did(u, CannotTransition("activate"))

\* variant: a blocked account keeps its isActive flag
block_keepsFlag(u, reason) ==
    IF canTransitionTo(u, "blocked")
    THEN Did([u EXCEPT !.authStatus = "blocked", !.lockReason = reason], Ok)
    ELSE Did(u, CannotTransition("block"))

\* variant: the account is switched off before the table is consulted
deactivate_switchOffFirst(u) ==
    IF canTransitionTo(u, "inactive")
    THEN Did([u EXCEPT !.authStatus = "inactive", !.isActive = FALSE], Ok)
    ELSE Did([u EXCEPT !.isActive = FALSE], CannotTransition("deactivate"))

deactivate(u) ==
    IF canTransitionTo(u, "inactive")
    THEN Did([u EXCEPT !.authStatus = "inactive", !.isActive = FALSE], Ok)
    ELSE Did(u, CannotTransition("deactivate"))

suspend(u, reason) ==
    IF canTransitionTo(u, "suspended")
    THEN Did([u EXCEPT !.authStatus = "suspended", !.lockReason = reason], Ok)
    ELSE Did(u, CannotTransition("suspend"))

block(u, reason) ==
    IF canTransitionTo(u, "blocked")
    THEN Did([u EXCEPT !.authStatus = "blocked", !.isActive = FALSE, !.lockReason = reason], Ok)
    ELSE Did(u, CannotTransition("block"))

\* variant: a successful login also lifts the lock
recordSuccessfulLogin_unlocks(u, ipAddress, t) ==
    unlock(resetFailedAttempts([u EXCEPT !.lastLoginAt = t, !.lastLoginIp = ipAddress]))

recordSuccessfulLogin(u, ipAddress, t) ==
    resetFailedAttempts([u EXCEPT !.lastLoginAt = t, !.lastLoginIp = ipAddress])

\* variant: the account is locked by the attempt after the fifth
recordFailedLogin_lateLock(u, t) ==
    LET counted == [u EXCEPT !.failedLoginAttempts = @ + 1] IN
    IF counted.failedLoginAttempts > LockThreshold
    THEN lockAccount(counted, "multiple_failed_attempts", t)
    ELSE counted

recordFailedLogin(u, t) ==
    LET counted == [u EXCEPT !.failedLoginAttempts = @ + 1] IN
    IF counted.failedLoginAttempts >= LockThreshold
    THEN lockAccount(counted, "multiple_failed_attempts", t)
    ELSE counted

\* variant: verification activates the account whatever its status
verifyEmail_alwaysActivates(u) ==
    [u EXCEPT !.emailVerified = TRUE,
              !.verificationToken = None,
              !.verificationTokenExpiresAt = NoTime,
              !.authStatus = "active"]

verifyEmail(u) ==
    [u EXCEPT !.emailVerified = TRUE,
              !.verificationToken = None,
              !.verificationTokenExpiresAt = NoTime,
              !.authStatus = IF @ = "pending" THEN "active" ELSE @]

setEmailVerificationToken(u, token, expiresInHours, t) ==
    [u EXCEPT !.verificationToken = token,
              !.verificationTokenExpiresAt = t + expiresInHours * 60 * 60]

isEmailVerificationTokenValid(u, token, t) ==
    IF u.verificationToken = None \/ u.verificationTokenExpiresAt = NoTime THEN FALSE
    ELSE u.verificationToken = token /\ t < u.verificationTokenExpiresAt

setPasswordResetToken(u, token, expiresInMinutes, t) ==
    [u EXCEPT !.resetPasswordToken = token,
              !.resetPasswordExpiresAt = t + expiresInMinutes * 60]

\* variant: the reset check reads the e-mail verification slot
isPasswordResetTokenValid_readsVerification(u, token, t) ==
    IF u.verificationToken = None \/ u.verificationTokenExpiresAt = NoTime THEN FALSE
    ELSE u.verificationToken = token /\ t < u.verificationTokenExpiresAt

isPasswordResetTokenValid(u, token, t) ==
    IF u.resetPasswordToken = None \/ u.resetPasswordExpiresAt = NoTime THEN FALSE
    ELSE u.resetPasswordToken = token /\ t < u.resetPasswordExpiresAt

completePasswordReset(u, newPassword) ==
    unlock(resetFailedAttempts([u EXCEPT !.password = Hash(newPassword),
                                         !.resetPasswordToken = None,
                                         !.resetPasswordExpiresAt = NoTime]))

----------------------------------------------------------------------------
(* AuthToken (auth module): creation and expiry *)

\* a duration string is the sequence of its characters; a number is a number of seconds
Text(chars) == [kind |-> "string", chars |-> chars, value |-> 0]
Seconds(n) == [kind |-> "number", chars |-> <<>>, value |-> n]

Digits == {"0", "1", "2", "3", "4", "5", "6", "7", "8", "9"}

DigitValue(c) ==
    CASE c = "0" -> 0 [] c = "1" -> 1 [] c = "2" -> 2 [] c = "3" -> 3 [] c = "4" -> 4
      [] c = "5" -> 5 [] c = "6" -> 6 [] c = "7" -> 7 [] c = "8" -> 8 [] c = "9" -> 9

RECURSIVE parseInt(_)
parseInt(chars) ==
    IF chars = <<>> THEN 0
    ELSE 10 * parseInt(SubSeq(chars, 1, Len(chars) - 1)) + DigitValue(chars[Len(chars)])

\* seconds instead of milliseconds; ok is FALSE where the method throws
calculateExpiration_shortDay(expiresIn, t) ==
    IF expiresIn.kind = "number" THEN [ok |-> TRUE, at |-> t + expiresIn.value]
    ELSE LET chars == expiresIn.chars
             n == Len(chars)
             match == /\ n >= 2
                      /\ \A i \in 1..(n - 1) : chars[i] \in Digits
                      /\ chars[n] \in {"s", "m", "h", "d"}
         IN IF ~match THEN [ok |-> FALSE, at |-> NoTime]
            ELSE LET value == parseInt(SubSeq(chars, 1, n - 1))
                     unit == chars[n]
                 IN [ok |-> TRUE,
                     at |-> t + (CASE unit = "s" -> value
                                   [] unit = "m" -> value * 60
                                   [] unit = "h" -> value * 60 * 60
                                   [] unit = "d" -> value * 24 * 60)]

calculateExpiration(expiresIn, t) ==
    IF expiresIn.kind = "number" THEN [ok |-> TRUE, at |-> t + expiresIn.value]
    ELSE LET chars == expiresIn.chars
             n == Len(chars)
             match == /\ n >= 2
                      /\ \A i \in 1..(n - 1) : chars[i] \in Digits
                      /\ chars[n] \in {"s", "m", "h", "d"}
         IN IF ~match THEN [ok |-> FALSE, at |-> NoTime]
            ELSE LET value == parseInt(SubSeq(chars, 1, n - 1))
                     unit == chars[n]
                 IN [ok |-> TRUE,
                     at |-> t + (CASE unit = "s" -> value
                                   [] unit = "m" -> value * 60
                                   [] unit = "h" -> value * 60 * 60
                                   [] unit = "d" -> value * 24 * 60 * 60)]

DEFAULT_TOKEN_CONFIG ==
    [type \in {"access", "refresh", "reset_password", "email_verification"} |->
        CASE type = "access" -> Text(<<"1", "h">>)
          [] type = "refresh" -> Text(<<"7", "d">>)
          [] type = "reset_password" -> Text(<<"1", "5", "m">>)
          [] type = "email_verification" -> Text(<<"2", "4", "h">>)]

NoAuthToken ==
    [userId |-> None, type |-> None, payload |-> [sub |-> None, type |-> None],
     secretKey |-> ForgedKey, issuedAt |-> NoTime, expiresAt |-> NoTime, isRevoked |-> FALSE,
     lastUsedAt |-> NoTime]

InvalidExpiration == Res("Error", "Invalid expiration format")

\* config: the fields of TokenConfig the caller overrides
createToken(type, userId, payload, secretKey, config, t) ==
    LET expiresIn == Field(config, "expiresIn", DEFAULT_TOKEN_CONFIG[type])
        expiresAt == calculateExpiration(expiresIn, t)
    IN IF ~expiresAt.ok THEN [ok |-> FALSE, token |-> NoAuthToken]
       ELSE [ok |-> TRUE,
             token |-> [userId |-> userId, type |-> type, payload |-> payload,
                        secretKey |-> secretKey, issuedAt |-> t,
                        expiresAt |-> expiresAt.at, isRevoked |-> FALSE,
                        lastUsedAt |-> NoTime]]

createAccessToken(userId, payload, secretKey, config, t) ==
    createToken("access", userId, payload, secretKey, config, t)

createRefreshToken(userId, payload, secretKey, config, t) ==
    createToken("refresh", userId, payload, secretKey, config, t)

isExpired(token, t) == t > token.expiresAt

hasValidPayload(token) ==
    token.payload.sub = token.userId /\ token.payload.type = token.type

isValid(token, t) == ~token.isRevoked /\ ~isExpired(token, t) /\ hasValidPayload(token)

markAsUsed(token, t) == [token EXCEPT !.lastUsedAt = t]

\* revoke(reason): the reason and the time of revocation are not kept here
revoke(token) == [token EXCEPT !.isRevoked = TRUE]

\* variant: a revoked refresh token is extended like any other
extend_ignoresRevocation(token, additionalMinutes) ==
    IF token.type # "refresh"
    THEN Did(token, Res("Error", "Only refresh tokens can be extended"))
    ELSE Did([token EXCEPT !.expiresAt = @ + additionalMinutes * 60], Ok)

extend(token, additionalMinutes) ==
    IF token.type # "refresh"
    THEN Did(token, Res("Error", "Only refresh tokens can be extended"))
    ELSE IF token.isRevoked
    THEN Did(token, Res("Error", "Cannot extend revoked token"))
    ELSE Did([token EXCEPT !.expiresAt = @ + additionalMinutes * 60], Ok)

----------------------------------------------------------------------------
(* AuthService *)

\* variant: the decoded payload is trusted once the user exists
verifyRefreshToken_trustDecode(d, tok, userId, t) ==
    findById(d, userId) # {} /\ tok.fmt = "jwt" /\ t < tok.exp

verifyRefreshToken(d, tok, userId, t) ==
    \E user \in findById(d, userId) : jwtVerify(tok, user.refreshSecretKey, t)

verifyAccessToken(d, tok, userId, t) ==
    \E user \in findById(d, userId) : jwtVerify(tok, user.secretKey, t)

validateUser(d, email, password) ==
    {user \in findByEmail(d, email) : Compare(password, user.password)}

\* variant: both tokens are signed with the access key
generateTokens_oneKey(user, t) ==
    {Token(user.id, "access", user.secretKey, t + AccessTtl),
     Token(user.id, "refresh", user.secretKey, t + RefreshTtl)}

generateTokens(user, t) ==
    {Token(user.id, "access", user.secretKey, t + AccessTtl),
     Token(user.id, "refresh", user.refreshSecretKey, t + RefreshTtl)}

\* variant: an unknown e-mail is reported as such
login_revealUnknown(d, email, password, t) ==
    IF findByEmail(d, email) = {} THEN Out(d, UserNotFound, {})
    ELSE LET found == validateUser(d, email, password) IN
         IF found = {} THEN Out(d, InvalidCredentials, {})
         ELSE LET user == CHOOSE u \in found : TRUE IN
              IF ~user.isActive THEN Out(d, AccountDeactivated, {})
              ELSE Out(d, Ok, generateTokens(user, t))

\* variant: the account state is checked before the password
login_stateFirst(d, email, password, t) ==
    LET known == findByEmail(d, email) IN
    IF known = {} THEN Out(d, InvalidCredentials, {})
    ELSE LET user == CHOOSE u \in known : TRUE IN
         IF ~user.isActive THEN Out(d, AccountDeactivated, {})
         ELSE IF ~Compare(password, user.password) THEN Out(d, InvalidCredentials, {})
         ELSE Out(d, Ok, generateTokens(user, t))

login(d, email, password, t) ==
    LET found == validateUser(d, email, password) IN
    IF found = {} THEN Out(d, InvalidCredentials, {})
    ELSE LET user == CHOOSE u \in found : TRUE IN
         IF ~user.isActive THEN Out(d, AccountDeactivated, {})
         ELSE Out(d, Ok, generateTokens(user, t))

\* the part shared by refresh, revoke and logout: decode, then verify under the stored key
RefreshTokenAccepted(d, tok, t) ==
    /\ decode(tok) # {}
    /\ tok.sub # None
    /\ verifyRefreshToken(d, tok, tok.sub, t)

\* variant: every refresh rotates the refresh key (one-time refresh tokens)
refreshToken_rotating(d, tok, t) ==
    IF ~RefreshTokenAccepted(d, tok, t) THEN Out(d, InvalidRefreshToken, {})
    ELSE LET user == CHOOSE u \in findById(d, tok.sub) : TRUE IN
         IF ~user.isActive THEN Out(d, InvalidRefreshToken, {})
         ELSE LET rotated == regenerateRefreshSecretKey(user, UsedKeys(d)) IN
              Out([d EXCEPT ![user.id].refreshSecretKey = rotated.refreshSecretKey],
                  Ok, generateTokens(rotated, t))

refreshToken(d, tok, t) ==
    IF ~RefreshTokenAccepted(d, tok, t) THEN Out(d, InvalidRefreshToken, {})
    ELSE LET user == CHOOSE u \in findById(d, tok.sub) : TRUE IN
         IF ~user.isActive THEN Out(d, InvalidRefreshToken, {})
         ELSE Out(d, Ok, generateTokens(user, t))

\* variant: a subject that is not stored is reported as such
revokeRefreshToken_reportsNotFound(d, tok, t) ==
    IF decode(tok) # {} /\ tok.sub # None /\ findById(d, tok.sub) = {}
    THEN Out(d, UserNotFound, {})
    ELSE IF ~RefreshTokenAccepted(d, tok, t) THEN Out(d, InvalidRefreshToken, {})
    ELSE LET user == CHOOSE u \in findById(d, tok.sub) : TRUE
             rotated == regenerateRefreshSecretKey(user, UsedKeys(d))
         IN Out(update(d, user.id, rotated), Ok, {})

revokeRefreshToken(d, tok, t) ==
    IF ~RefreshTokenAccepted(d, tok, t) THEN Out(d, InvalidRefreshToken, {})
    ELSE LET user == CHOOSE u \in findById(d, tok.sub) : TRUE
             rotated == regenerateRefreshSecretKey(user, UsedKeys(d))
         IN Out(update(d, user.id, rotated), Ok, {})

\* variant: the keys of the decoded subject are rotated and stored before the token is verified
logout_rotateFirst(d, tok, t) ==
    IF decode(tok) = {} \/ findById(d, tok.sub) = {} THEN Out(d, InvalidRefreshToken, {})
    ELSE LET user == CHOOSE u \in findById(d, tok.sub) : TRUE
             r1 == regenerateSecretKey(user, UsedKeys(d))
             r2 == regenerateRefreshSecretKey(r1, UsedKeys(d) \cup {r1.secretKey})
             rotated == [d EXCEPT ![user.id].secretKey = r2.secretKey,
                                  ![user.id].refreshSecretKey = r2.refreshSecretKey]
         IN IF ~RefreshTokenAccepted(d, tok, t) THEN Out(rotated, InvalidRefreshToken, {})
            ELSE Out(rotated, Ok, {})

logout(d, tok, t) ==
    IF ~RefreshTokenAccepted(d, tok, t) THEN Out(d, InvalidRefreshToken, {})
    ELSE LET user == CHOOSE u \in findById(d, tok.sub) : TRUE
             r1 == regenerateSecretKey(user, UsedKeys(d))
             r2 == regenerateRefreshSecretKey(r1, UsedKeys(d) \cup {r1.secretKey})
         IN Out(update(d, user.id, r2), Ok, {})

revokeAllRefreshTokens(d, userId, t) ==
    IF findById(d, userId) = {} THEN Out(d, UserNotFound, {})
    ELSE LET user == CHOOSE u \in findById(d, userId) : TRUE
             rotated == regenerateRefreshSecretKey(user, UsedKeys(d))
         IN Out(update(d, user.id, rotated), Ok, {})

adminRevokeUserTokens(d, userId, t) == revokeAllRefreshTokens(d, userId, t)

\* variant: the decoded payload is trusted once it is unexpired and its subject is stored
introspectToken_trustDecode(d, tok, t) ==
    IF decode(tok) = {} THEN Out(d, Introspection(FALSE, "Invalid token format"), {})
    ELSE IF tok.exp < t THEN Out(d, Introspection(FALSE, "Token has expired"), {})
    ELSE IF findById(d, tok.sub) = {}
         THEN Out(d, Introspection(FALSE, "User not found"), {})
    ELSE Out(d, Introspection(TRUE, ""), {})

introspectToken(d, tok, t) ==
    IF decode(tok) = {} THEN Out(d, Introspection(FALSE, "Invalid token format"), {})
    ELSE IF tok.exp < t THEN Out(d, Introspection(FALSE, "Token has expired"), {})
    ELSE IF ~verifyAccessToken(d, tok, tok.sub, t)
         THEN Out(d, Introspection(FALSE, "Token signature invalid"), {})
    ELSE IF findById(d, tok.sub) = {}
         THEN Out(d, Introspection(FALSE, "User not found"), {})
    ELSE Out(d, Introspection(TRUE, ""), {})

\* variant: a deactivated account is reported to the caller
requestRenewSignatures_reportsInactive(d, email, code, t) ==
    LET found == findByEmail(d, email) IN
    IF found = {} THEN Out(d, Ok, {})
    ELSE LET user == CHOOSE u \in found : TRUE IN
         IF ~user.isActive THEN Out(d, AccountDeactivated, {})
         ELSE LET withCode ==
                    [user EXCEPT !.renewalVerificationToken = code,
                                 !.renewalVerificationTokenExpiresAt = t + RenewalTtl]
              IN Out(update(d, user.id, withCode), Ok, {})

\* the stored users after requestRenewSignatures; the code itself goes to the log
requestRenewSignatures(d, email, code, t) ==
    LET found == findByEmail(d, email) IN
    IF found = {} THEN Out(d, Ok, {})
    ELSE LET user == CHOOSE u \in found : TRUE IN
         IF ~user.isActive THEN Out(d, Ok, {})
         ELSE LET withCode ==
                    [user EXCEPT !.renewalVerificationToken = code,
                                 !.renewalVerificationTokenExpiresAt = t + RenewalTtl]
              IN Out(update(d, user.id, withCode), Ok, {})

\* variant: the pending code is looked at before the account state
confirmRenewSignatures_codeFirst(d, email, code, newPassword, t) ==
    LET found == findByEmail(d, email) IN
    IF found = {} THEN Out(d, UserNotFound, {})
    ELSE LET user == CHOOSE u \in found : TRUE IN
         IF user.renewalVerificationToken = None
            \/ user.renewalVerificationTokenExpiresAt = NoTime
         THEN Out(d, NoRenewalRequested, {})
         ELSE IF ~user.isActive THEN Out(d, AccountDeactivated, {})
         ELSE IF user.renewalVerificationToken # code THEN Out(d, InvalidCode, {})
         ELSE IF t > user.renewalVerificationTokenExpiresAt THEN Out(d, CodeExpired, {})
         ELSE LET r1 == regenerateSecretKey(user, UsedKeys(d))
                  r2 == regenerateRefreshSecretKey(r1, UsedKeys(d) \cup {r1.secretKey})
                  r3 == [r2 EXCEPT !.password = Hash(newPassword),
                                   !.renewalVerificationToken = None,
                                   !.renewalVerificationTokenExpiresAt = NoTime]
              IN Out(update(d, user.id, r3), Ok, {})

confirmRenewSignatures(d, email, code, newPassword, t) ==
    LET found == findByEmail(d, email) IN
    IF found = {} THEN Out(d, UserNotFound, {})
    ELSE LET user == CHOOSE u \in found : TRUE IN
         IF ~user.isActive THEN Out(d, AccountDeactivated, {})
         ELSE IF user.renewalVerificationToken = None
                 \/ user.renewalVerificationTokenExpiresAt = NoTime
              THEN Out(d, NoRenewalRequested, {})
         ELSE IF user.renewalVerificationToken # code THEN Out(d, InvalidCode, {})
         ELSE IF t > user.renewalVerificationTokenExpiresAt THEN Out(d, CodeExpired, {})
         ELSE LET r1 == regenerateSecretKey(user, UsedKeys(d))
                  r2 == regenerateRefreshSecretKey(r1, UsedKeys(d) \cup {r1.secretKey})
                  r3 == [r2 EXCEPT !.password = Hash(newPassword),
                                   !.renewalVerificationToken = None,
                                   !.renewalVerificationTokenExpiresAt = NoTime]
              IN Out(update(d, user.id, r3), Ok, {})

----------------------------------------------------------------------------
(* RegistrationService *)

\* variant: only the access key is generated at registration
register_withoutRefreshKey(d, id, email, password) ==
    IF findByEmail(d, email) # {} THEN Out(d, EmailConflict, {})
    ELSE LET k1 == generateSecretKey(UsedKeys(d))
             k2 == generateSecretKey(UsedKeys(d) \cup {k1})
             user == [id |-> None,
                      email |-> email,
                      password |-> Hash(password),
                      secretKey |-> k1,
                      refreshSecretKey |-> NoKey,
                      isActive |-> TRUE,
                      emailVerified |-> FALSE,
                      renewalVerificationToken |-> None,
                      renewalVerificationTokenExpiresAt |-> NoTime]
         IN Out(create(d, id, user), Ok, {})

\* variant: one generated key serves as access key and as refresh key
register_sharedKey(d, id, email, password) ==
    IF findByEmail(d, email) # {} THEN Out(d, EmailConflict, {})
    ELSE LET k1 == generateSecretKey(UsedKeys(d))
             user == [id |-> None,
                      email |-> email,
                      password |-> Hash(password),
                      secretKey |-> k1,
                      refreshSecretKey |-> k1,
                      isActive |-> TRUE,
                      emailVerified |-> FALSE,
                      renewalVerificationToken |-> None,
                      renewalVerificationTokenExpiresAt |-> NoTime]
         IN Out(create(d, id, user), Ok, {})

register(d, id, email, password) ==
    IF findByEmail(d, email) # {} THEN Out(d, EmailConflict, {})
    ELSE LET k1 == generateSecretKey(UsedKeys(d))
             k2 == generateSecretKey(UsedKeys(d) \cup {k1})
             user == [id |-> None,
                      email |-> email,
                      password |-> Hash(password),
                      secretKey |-> k1,
                      refreshSecretKey |-> k2,
                      isActive |-> TRUE,
                      emailVerified |-> FALSE,
                      renewalVerificationToken |-> None,
                      renewalVerificationTokenExpiresAt |-> NoTime]
         IN Out(create(d, id, user), Ok, {})

\* the verification columns of the row register creates
registerVerification(v, id, token, t) ==
    [i \in DOMAIN v \cup {id} |->
        IF i = id
        THEN [verificationToken |-> token, verificationTokenExpiresAt |-> t + VerificationTtl]
        ELSE v[i]]

\* randomUUID(): a token no row holds
randomUUID(v) ==
    CHOOSE token \in VerificationTokens : \A id \in DOMAIN v : v[id].verificationToken # token

\* the stored users and their verification columns after a registration handler
Stored(d, v, r) == [db |-> d, verif |-> v, res |-> r, out |-> {}]

findByVerificationToken(v, token) == {id \in DOMAIN v : v[id].verificationToken = token}

\* args carries emailVerified and, when the caller passed them, the token and the expiry
updateVerificationStatus(d, v, id, args) ==
    Stored([d EXCEPT ![id].emailVerified = args.emailVerified],
           [v EXCEPT ![id] =
               [verificationToken |-> Field(args, "verificationToken", @.verificationToken),
                verificationTokenExpiresAt |->
                    Field(args, "verificationTokenExpiresAt", @.verificationTokenExpiresAt)]],
           Ok)

RegistrationService_verifyEmail(d, v, token, t) ==
    LET found == findByVerificationToken(v, token) IN
    IF found = {} THEN Stored(d, v, InvalidVerificationToken)
    ELSE LET id == CHOOSE i \in found : TRUE IN
         IF v[id].verificationTokenExpiresAt # NoTime /\ v[id].verificationTokenExpiresAt < t
         THEN Stored(d, v, VerificationExpired)
         ELSE IF d[id].emailVerified THEN Stored(d, v, AlreadyVerified)
         ELSE updateVerificationStatus(d, v, id,
                  [emailVerified |-> TRUE, verificationToken |-> None])

\* variant: the new expiry is stored, the new token is not
resendVerification_expiryOnly(d, v, email, token, t) ==
    LET found == findByEmail(d, email) IN
    IF found = {} THEN Stored(d, v, UserNotFound)
    ELSE LET user == CHOOSE u \in found : TRUE IN
         IF user.emailVerified THEN Stored(d, v, AlreadyVerified)
         ELSE updateVerificationStatus(d, v, user.id,
                  [emailVerified |-> FALSE,
                   verificationTokenExpiresAt |-> t + VerificationTtl])

\* token: the value randomUUID() returns
resendVerification(d, v, email, token, t) ==
    LET found == findByEmail(d, email) IN
    IF found = {} THEN Stored(d, v, UserNotFound)
    ELSE LET user == CHOOSE u \in found : TRUE IN
         IF user.emailVerified THEN Stored(d, v, AlreadyVerified)
         ELSE updateVerificationStatus(d, v, user.id,
                  [emailVerified |-> FALSE,
                   verificationToken |-> token,
                   verificationTokenExpiresAt |-> t + VerificationTtl])

\* updates: the fields of UpdateUserDto the caller sent
updateUser(d, id, updates) ==
    IF findById(d, id) = {} THEN Out(d, UserNotFound, {})
    ELSE LET processedUpdates ==
                 [f \in DOMAIN updates |->
                     IF f = "password" THEN Hash(updates[f]) ELSE updates[f]]
         IN IF Has(updates, "email")
               /\ \E other \in DOMAIN d : other # id /\ d[other].email = updates.email
            THEN Out(d, EmailConflict, {})
            ELSE Out(update(d, id, processedUpdates), Ok, {})

deactivateUser(d, id, t) ==
    IF findById(d, id) = {} THEN Out(d, UserNotFound, {})
    ELSE Out(update(d, id, [isActive |-> FALSE]), Ok, {})

reactivateUser(d, id, t) ==
    IF findById(d, id) = {} THEN Out(d, UserNotFound, {})
    ELSE Out(update(d, id, [isActive |-> TRUE]), Ok, {})

----------------------------------------------------------------------------
(* The requests *)

\* a request as the caller saw it: what was sent, what came back, and
\*   run     consecutive failed logins for `email` ending with this request
\*   before  the same count before this request
\*           (activate: the entity's failedLoginAttempts before the call)
\*   code    request: the renewal code handed to the log / mail collaborator
\*   repeat  refresh: the same token was accepted by the request just before
\*           confirm: the code is the one the request just before handed out for `email`
Req(op, email, password, tok, id, r, run, before, code, rep) ==
    [op |-> op, email |-> email, password |-> password, tok |-> tok, id |-> id,
     res |-> r.res, out |-> r.out, run |-> run, before |-> before,
     code |-> code, repeat |-> rep]

Plain(op, id, r) == Req(op, None, None, Garbage, id, r, 0, 0, None, FALSE)

Presentable == issued \cup ForgedTokens

\* the id the store gives a new row
NewId(d) == CHOOSE i \in UserIds \ DOMAIN d : TRUE

Init ==
    /\ db = [i \in {} |-> None]
    /\ issued = {}
    /\ now = 0
    /\ last = Plain("init", None, Out(db, Ok, {}))
    /\ account = User([email |-> "a@x"])
    /\ verif = [i \in {} |-> None]
    /\ authToken = NoAuthToken
    /\ calls = [c \in Callers |-> Idle]

Bump(n) == IF n <= LockThreshold THEN n + 1 ELSE n

Register ==
    \E email \in Emails, password \in RegisterPasswords :
        /\ DOMAIN db # UserIds
        /\ now <= MaxRegisterTime
        /\ LET r == register(db, NewId(db), email, password)
               token == randomUUID(verif)
           IN
            /\ db' = r.db
            /\ verif' = IF r.res = Ok
                        THEN registerVerification(verif, NewId(db), token, now)
                        ELSE verif
            /\ last' = Req("register", email, None, Garbage, None, r, 0, 0,
                           IF r.res = Ok THEN token ELSE None, FALSE)
        /\ UNCHANGED <<issued, now, account, authToken, calls>>

Login ==
    \E email \in Emails, password \in Passwords :
        LET r == login(db, email, password, now)
            before == IF last.op = "login" /\ last.email = email THEN last.run ELSE 0
            run == IF r.res = Ok \/ findByEmail(db, email) = {} THEN 0 ELSE Bump(before)
        IN
        /\ Cardinality(issued \cup r.out) <= MaxIssued
        /\ db' = r.db
        /\ issued' = issued \cup r.out
        /\ last' = Req("login", email, password, Garbage, None, r, run, before, None, FALSE)
        /\ UNCHANGED <<now, others>>

Refresh ==
    \E tok \in Presentable :
        LET r == refreshToken(db, tok, now) IN
        /\ Cardinality(issued \cup r.out) <= MaxIssued
        /\ db' = r.db
        /\ issued' = issued \cup r.out
        /\ last' = Req("refresh", None, None, tok, None, r, 0, 0, None,
                       last.op = "refresh" /\ last.res = Ok /\ last.tok = tok)
        /\ UNCHANGED <<now, others>>

Revoke ==
    \E tok \in Presentable :
        LET r == revokeRefreshToken(db, tok, now) IN
        /\ db' = r.db
        /\ last' = Req("revoke", None, None, tok, None, r, 0, 0, None, FALSE)
        /\ UNCHANGED <<issued, now, others>>

Logout ==
    \E tok \in Presentable :
        LET r == logout(db, tok, now) IN
        /\ db' = r.db
        /\ last' = Req("logout", None, None, tok, None, r, 0, 0, None, FALSE)
        /\ UNCHANGED <<issued, now, others>>

AdminRevoke ==
    \E id \in UserIds \cup {GhostId} :
        LET r == adminRevokeUserTokens(db, id, now) IN
        /\ db' = r.db
        /\ last' = Plain("adminRevoke", id, r)
        /\ UNCHANGED <<issued, now, others>>

Introspect ==
    \E tok \in Presentable :
        LET r == introspectToken(db, tok, now) IN
        /\ db' = r.db
        /\ last' = Req("introspect", None, None, tok, None, r, 0, 0, None, FALSE)
        /\ UNCHANGED <<issued, now, others>>

RequestRenew ==
    \E email \in Emails, code \in RenewalCodes :
        LET r == requestRenewSignatures(db, email, code, now) IN
        /\ db' = r.db
        /\ last' = Req("request", email, None, Garbage, None, r, 0, 0,
                       IF \E u \in findByEmail(db, email) : u.isActive THEN code ELSE None,
                       FALSE)
        /\ UNCHANGED <<issued, now, others>>

ConfirmRenew ==
    \E email \in Emails, code \in RenewalCodes \cup {WrongCode}, password \in Passwords :
        LET r == confirmRenewSignatures(db, email, code, password, now) IN
        /\ db' = r.db
        /\ last' = Req("confirm", email, password, Garbage, None, r, 0, 0, code,
                       last.op = "request" /\ last.email = email /\ last.code = code)
        /\ UNCHANGED <<issued, now, others>>

Deactivate ==
    \E id \in UserIds :
        LET r == deactivateUser(db, id, now) IN
        /\ db' = r.db
        /\ last' = Plain("deactivate", None, r)
        /\ UNCHANGED <<issued, now, others>>

Reactivate ==
    \E id \in UserIds :
        LET r == reactivateUser(db, id, now) IN
        /\ db' = r.db
        /\ last' = Plain("reactivate", None, r)
        /\ UNCHANGED <<issued, now, others>>

Tick ==
    \E t \in Times :
        /\ t > now
        /\ now' = t
        /\ last' = Plain("tick", None, Out(db, Ok, {}))
        /\ UNCHANGED <<db, issued, others>>

Next ==
    \/ Register
    \/ Login
    \/ Refresh
    \/ Revoke
    \/ Logout
    \/ AdminRevoke
    \/ Introspect
    \/ RequestRenew
    \/ ConfirmRenew
    \/ Deactivate
    \/ Reactivate
    \/ Tick

Spec == Init /\ [][Next]_vars

----------------------------------------------------------------------------
(* The registration handlers and the e-mail verification columns *)

VerifyEmail ==
    \E token \in VerificationTokens \cup {UnknownToken} :
        LET r == RegistrationService_verifyEmail(db, verif, token, now) IN
        /\ db' = r.db
        /\ verif' = r.verif
        /\ last' = Req("verifyEmail", None, None, Garbage, None, r, 0, 0, token,
                       last.op = "verifyEmail" /\ last.res = Ok /\ last.code = token)
        /\ UNCHANGED <<issued, now, account, authToken, calls>>

ResendVerification ==
    \E email \in Emails :
        LET token == randomUUID(verif)
            r == resendVerification(db, verif, email, token, now)
        IN
        /\ db' = r.db
        /\ verif' = r.verif
        /\ last' = Req("resendVerification", email, None, Garbage, None, r, 0, 0,
                       token, FALSE)
        /\ UNCHANGED <<issued, now, account, authToken, calls>>

NextRegistration ==
    \/ Register
    \/ VerifyEmail
    \/ ResendVerification
    \/ Deactivate
    \/ Reactivate
    \/ Tick

SpecRegistration == Init /\ [][NextRegistration]_vars

----------------------------------------------------------------------------
(* Every handler that writes the users table, at one instant *)

UpdateUserDtos ==
    {[email |-> email] : email \in Emails}
        \cup {[password |-> password] : password \in Passwords}
        \cup {[isActive |-> isActive] : isActive \in BOOLEAN}
        \cup {[email |-> email, password |-> "p2"] : email \in Emails}

UpdateUser ==
    \E id \in UserIds \cup {GhostId}, updates \in UpdateUserDtos :
        LET r == updateUser(db, id, updates) IN
        /\ db' = r.db
        /\ last' = Plain("updateUser", id, r)
        /\ UNCHANGED <<issued, now, others>>

NextStore ==
    \/ Register
    \/ Login
    \/ Refresh
    \/ Revoke
    \/ Logout
    \/ AdminRevoke
    \/ RequestRenew
    \/ ConfirmRenew
    \/ UpdateUser
    \/ Deactivate
    \/ Reactivate

SpecStore == Init /\ [][NextStore]_vars

----------------------------------------------------------------------------
(* The User account entity on its own: every method a caller may invoke *)

\* the outcome of a method of the entity, as the caller saw it
Called(op, r) == Plain(op, None, Out(db, r, {}))

TransitionOps == {"user.activate", "user.deactivate", "user.suspend", "user.block"}

Activate ==
    LET r == activate(account) IN
    /\ account' = r.user
    /\ last' = [Called("user.activate", r.res) EXCEPT !.before = account.failedLoginAttempts]
    /\ UNCHANGED <<db, issued, now, verif, authToken, calls>>

DeactivateAccount ==
    LET r == deactivate(account) IN
    /\ account' = r.user
    /\ last' = Called("user.deactivate", r.res)
    /\ UNCHANGED <<db, issued, now, verif, authToken, calls>>

Suspend ==
    \E reason \in AccountLockReason :
        LET r == suspend(account, reason) IN
        /\ account' = r.user
        /\ last' = Called("user.suspend", r.res)
        /\ UNCHANGED <<db, issued, now, verif, authToken, calls>>

Block ==
    \E reason \in AccountLockReason :
        LET r == block(account, reason) IN
        /\ account' = r.user
        /\ last' = Called("user.block", r.res)
        /\ UNCHANGED <<db, issued, now, verif, authToken, calls>>

VerifyEmailOfUser ==
    /\ account' = verifyEmail(account)
    /\ last' = Called("user.verifyEmail", Ok)
    /\ UNCHANGED <<db, issued, now, verif, authToken, calls>>

RecordFailedLogin ==
    /\ account.failedLoginAttempts < MaxFailedAttempts
    /\ account' = recordFailedLogin(account, now)
    /\ last' = Called("user.recordFailedLogin", Ok)
    /\ UNCHANGED <<db, issued, now, verif, authToken, calls>>

RecordSuccessfulLogin ==
    \E ipAddress \in {None, "10.0.0.1"} :
        /\ account' = recordSuccessfulLogin(account, ipAddress, now)
        /\ last' = Called("user.recordSuccessfulLogin", Ok)
        /\ UNCHANGED <<db, issued, now, verif, authToken, calls>>

NextUser ==
    \/ Activate
    \/ DeactivateAccount
    \/ Suspend
    \/ Block
    \/ VerifyEmailOfUser
    \/ RecordFailedLogin
    \/ RecordSuccessfulLogin
    \/ Tick

SpecUser == Init /\ [][NextUser]_vars

----------------------------------------------------------------------------
(* The AuthToken entity on its own *)

ExpiresInInputs ==
    {Text(chars) : chars \in
        {<<"3", "0", "s">>, <<"1", "5", "m">>, <<"2", "h">>, <<"0", "7", "d">>,
         <<"h">>, <<"1", "5">>, <<"1", "w">>, <<"1", "h", "h">>, <<" ", "1", "h">>,
         <<"1", ".", "5", "h">>, <<"-", "1", "h">>, <<"1", "H">>, <<>>}}
        \cup {Seconds(90)}

\* the keys a caller signs with
SigningKeys == {1, 2}

TokenConfigs == {[algorithm |-> "HS256"]} \cup {[expiresIn |-> e] : e \in ExpiresInInputs}

\* the factory called with `config`; last.code is the duration in force,
\* last.repeat tells that it is the default of the type; the token followed
\* through its life is the first one a factory returns
Created(op, type, config, r) ==
    [Plain(op, None, Out(db, IF r.ok THEN Ok ELSE InvalidExpiration, {})) EXCEPT
        !.code = Field(config, "expiresIn", DEFAULT_TOKEN_CONFIG[type]),
        !.repeat = ~Has(config, "expiresIn")]

CreateAccessToken ==
    \E userId \in UserIds, secretKey \in SigningKeys, config \in TokenConfigs :
        LET r == createAccessToken(userId, [sub |-> userId, type |-> "access"],
                                   secretKey, config, now)
        IN
        /\ authToken = NoAuthToken
        /\ authToken' = IF r.ok THEN r.token ELSE authToken
        /\ last' = Created("createAccessToken", "access", config, r)
        /\ UNCHANGED <<db, issued, now, account, verif, calls>>

CreateRefreshToken ==
    \E userId \in UserIds, secretKey \in SigningKeys, config \in TokenConfigs :
        LET r == createRefreshToken(userId, [sub |-> userId, type |-> "refresh"],
                                    secretKey, config, now)
        IN
        /\ authToken = NoAuthToken
        /\ authToken' = IF r.ok THEN r.token ELSE authToken
        /\ last' = Created("createRefreshToken", "refresh", config, r)
        /\ UNCHANGED <<db, issued, now, account, verif, calls>>

MarkAsUsed ==
    /\ authToken # NoAuthToken
    /\ authToken' = markAsUsed(authToken, now)
    /\ last' = Called("markAsUsed", Ok)
    /\ UNCHANGED <<db, issued, now, account, verif, calls>>

RevokeAuthToken ==
    /\ authToken # NoAuthToken
    /\ authToken' = revoke(authToken)
    /\ last' = Called("revoke", Ok)
    /\ UNCHANGED <<db, issued, now, account, verif, calls>>

\* an extension is asked for a token that expires within two hours or has
\* expired less than an hour ago; last.before tells whether the token was
\* valid before the call, last.run is the number of minutes asked for
Extend ==
    \E additionalMinutes \in {-60, 60} :
        LET r == extend(authToken, additionalMinutes) IN
        /\ authToken # NoAuthToken
        /\ r.user.expiresAt >= now - AccessTtl
        /\ r.user.expiresAt <= now + 2 * AccessTtl
        /\ authToken' = r.user
        /\ last' = [Called("extend", r.res) EXCEPT
                        !.run = additionalMinutes,
                        !.before = IF isValid(authToken, now) THEN 1 ELSE 0]
        /\ UNCHANGED <<db, issued, now, account, verif, calls>>

NextToken ==
    \/ CreateAccessToken
    \/ CreateRefreshToken
    \/ MarkAsUsed
    \/ RevokeAuthToken
    \/ Extend
    \/ Tick

SpecToken == Init /\ [][NextToken]_vars

----------------------------------------------------------------------------
(* Properties *)

\* a token of the kind it was issued as, checked against the stored key of its subject
Verifies(tok) ==
    IF tok.typ = "access" THEN verifyAccessToken(db, tok, tok.sub, now)
    ELSE verifyRefreshToken(db, tok, tok.sub, now)

IssuedTo(id) == {tok \in issued : tok.sub = id}

UserOf(email) == {id \in DOMAIN db : db[id].email = email}

\* C1: after a successful logout, no access or refresh token issued to that
\* user before the logout verifies against the user's stored keys.
C1_LogoutInvalidatesAllTokens ==
    (last.op = "logout" /\ last.res = Ok) =>
        \A tok \in IssuedTo(last.tok.sub) : ~Verifies(tok)

C3_RevokeInvalidatesRefreshOnly ==
    (last.op = "revoke" /\ last.res = Ok) =>
        \A tok \in IssuedTo(last.tok.sub) :
            IF tok.typ = "refresh" THEN ~Verifies(tok)
            ELSE (now < tok.exp => Verifies(tok))

\* C4: after a successful adminRevokeAllTokens(userId), no access token and no
\* refresh token issued to that user before verifies (both keys were rotated).
C4_AdminRevokeInvalidatesAllTokens ==
    (last.op = "adminRevoke" /\ last.res = Ok) =>
        \A tok \in IssuedTo(last.id) : ~Verifies(tok)

\* C5: a verification succeeds only for a token signed with the key that is
\* stored for its subject when the request is handled: refresh, revoke and
\* logout accept a token only under the stored refresh key, introspect reports
\* a token active only under the stored access key.
C5_VerifyUsesStoredKey ==
    [][/\ (last'.op \in {"refresh", "revoke", "logout"} /\ last'.res = Ok) =>
            /\ last'.tok.sub \in DOMAIN db
            /\ last'.tok.key = db[last'.tok.sub].refreshSecretKey
       /\ (last'.op = "introspect" /\ last'.res.active) =>
            /\ last'.tok.sub \in DOMAIN db
            /\ last'.tok.key = db[last'.tok.sub].secretKey]_vars

C5_Witness ==
    /\ last.op = "refresh"
    /\ last.res = Ok
    /\ last.tok.typ = "refresh"
    /\ \E tok \in issued : tok.sub = last.tok.sub /\ tok.exp # last.tok.exp

\* C6: login and refresh hand out tokens only for a user for whom
\* canAuthenticate() holds (isActive, status active, not locked).
C6_IssuedOnlyIfCanAuthenticate ==
    (last.op \in {"login", "refresh"} /\ last.out # {}) =>
        \A tok \in last.out :
            tok.sub \in DOMAIN db /\ canAuthenticate(User(db[tok.sub]), now)

\* C7: the login attempt that follows 5 consecutive failed attempts for one
\* user fails even with the correct password.
C7_LockedAfterFiveFailures ==
    (/\ last.op = "login"
     /\ last.before >= LockThreshold
     /\ \E id \in UserOf(last.email) : Compare(last.password, db[id].password)) =>
        last.res # Ok

\* C8: login for an e-mail no user has and login with a wrong password give the
\* same InvalidCredentials failure and change neither the users nor the tokens.
C8_LoginFailuresIndistinguishable ==
    [][(/\ last'.op = "login"
        /\ \/ UserOf(last'.email) = {}
           \/ \E id \in UserOf(last'.email) : ~Compare(last'.password, db[id].password)) =>
            /\ last'.res = InvalidCredentials
            /\ last'.out = {}
            /\ db' = db
            /\ issued' = issued]_vars

C8_Witness ==
    /\ last.op = "login"
    /\ last.res = InvalidCredentials
    /\ UserOf(last.email) # {}
    /\ DOMAIN db # UserIds

\* C9: for a user with isActive false, login with a wrong password fails with
\* InvalidCredentials and login with the right password fails with
\* AccountDeactivated; no token is issued in either case.
C9_PasswordBeforeAccountState ==
    last.op = "login" =>
        \A id \in UserOf(last.email) :
            ~db[id].isActive =>
                /\ last.out = {}
                /\ last.res = IF Compare(last.password, db[id].password)
                              THEN AccountDeactivated ELSE InvalidCredentials

C9_Witness ==
    /\ last.op = "login"
    /\ last.res = AccountDeactivated
    /\ \E id \in UserOf(last.email) : ~db[id].isActive

\* C10: a successful refresh leaves every stored key as it was, and the token
\* it was given is still accepted afterwards.
C10_RefreshKeepsKeys ==
    [][(last'.op = "refresh" /\ last'.res = Ok) =>
            /\ db' = db
            /\ verifyRefreshToken(db', last'.tok, last'.tok.sub, now')]_vars

C10_Witness ==
    /\ last.op = "refresh"
    /\ last.res = Ok
    /\ last.repeat

\* C11: introspection always answers with an introspection result, never an
\* error; a result that is not active carries a reason; a result is active
\* only for a well-formed token that has not expired, whose subject is stored
\* and whose signature is made with that subject's current access key.
C11_IntrospectNeverThrows ==
    last.op = "introspect" =>
        /\ last.res.kind = "introspect"
        /\ ~last.res.active => last.res.msg # ""
        /\ last.res.active =>
            /\ last.tok.fmt = "jwt"
            /\ now < last.tok.exp
            /\ last.tok.sub \in DOMAIN db
            /\ last.tok.key = db[last.tok.sub].secretKey

C11_Witness ==
    /\ last.op = "introspect"
    /\ last.res.active
    /\ \E tok \in issued : tok.typ = "refresh" /\ tok.sub = last.tok.sub

\* C12: every step of the account entity that changes authStatus follows the
\* table pending->{active, blocked}, active->{inactive, suspended, blocked},
\* inactive->{active, blocked}, suspended->{active, blocked}; a blocked
\* account stays blocked and every later transition call on it fails.
C12_StatusFollowsTable ==
    [][/\ account'.authStatus # account.authStatus =>
            <<account.authStatus, account'.authStatus>> \in
                {<<"pending", "active">>, <<"pending", "blocked">>,
                 <<"active", "inactive">>, <<"active", "suspended">>,
                 <<"active", "blocked">>,
                 <<"inactive", "active">>, <<"inactive", "blocked">>,
                 <<"suspended", "active">>, <<"suspended", "blocked">>}
       /\ account.authStatus = "blocked" =>
            /\ account'.authStatus = "blocked"
            /\ last'.op \in TransitionOps => last'.res.kind = "Error"]_vars

C12_Witness ==
    /\ account.authStatus = "blocked"
    /\ account.emailVerified
    /\ last.op = "user.activate"
    /\ last.res.kind = "Error"

\* C13: activate, deactivate, suspend or block called from a status whose
\* table entry lacks the target status throws, and leaves authStatus,
\* isActive, failedLoginAttempts, lockedUntil and lockReason as they were.
C13_RejectedTransitionChangesNothing ==
    [][\A op \in TransitionOps :
        LET target == CASE op = "user.activate" -> "active"
                        [] op = "user.deactivate" -> "inactive"
                        [] op = "user.suspend" -> "suspended"
                        [] op = "user.block" -> "blocked"
        IN (last'.op = op /\ target \notin AUTH_STATUS_TRANSITIONS[account.authStatus]) =>
            /\ last'.res.kind = "Error"
            /\ account'.authStatus = account.authStatus
            /\ account'.isActive = account.isActive
            /\ account'.failedLoginAttempts = account.failedLoginAttempts
            /\ account'.lockedUntil = account.lockedUntil
            /\ account'.lockReason = account.lockReason]_vars

C13_Witness ==
    /\ last.op = "user.deactivate"
    /\ last.res.kind = "Error"
    /\ account.authStatus = "pending"
    /\ account.isActive
    /\ account.failedLoginAttempts > 0

\* C14: verification with the token of a freshly registered, still pending
\* user, before the token expires, succeeds, marks the e-mail verified, makes
\* the status active and clears both the stored token and its expiry; a
\* second call with the same token right afterwards fails and changes nothing.
C14_VerificationConsumesToken ==
    [][last'.op = "verifyEmail" =>
        /\ \A id \in findByVerificationToken(verif, last'.code) :
            (/\ ~db[id].emailVerified
             /\ User(db[id]).authStatus = "pending"
             /\ now <= verif[id].verificationTokenExpiresAt) =>
                /\ last'.res = Ok
                /\ db'[id].emailVerified
                /\ User(db'[id]).authStatus = "active"
                /\ verif'[id].verificationToken = None
                /\ verif'[id].verificationTokenExpiresAt = NoTime
        /\ last'.repeat =>
            /\ last'.res # Ok
            /\ db' = db
            /\ verif' = verif]_vars

\* C15: a renewal request for an existing active user writes its code to the
\* stored user, and a confirm that presents that code right afterwards, well
\* before the hour is over, succeeds.
C15_RequestedCodeConfirms ==
    /\ (last.op = "request" /\ last.code # None) =>
          \A id \in UserOf(last.email) :
              db[id].renewalVerificationToken = last.code
    /\ (last.op = "confirm" /\ last.repeat) => last.res = Ok

C18_RequestIsSilent ==
    [][last'.op = "request" =>
        /\ last'.res = Ok
        /\ DOMAIN db' = DOMAIN db
        /\ \A id \in DOMAIN db :
            /\ db'[id].secretKey = db[id].secretKey
            /\ db'[id].refreshSecretKey = db[id].refreshSecretKey
            /\ db'[id].password = db[id].password
            /\ User(db'[id]).failedLoginAttempts = User(db[id]).failedLoginAttempts
        /\ (\A id \in UserOf(last'.email) : ~db[id].isActive) => db' = db]_vars

C18_Witness ==
    /\ last.op = "request"
    /\ last.res = Ok
    /\ last.code # None
    /\ \E id \in DOMAIN db : ~db[id].isActive

C20_KeysAlwaysPresent ==
    \A id \in DOMAIN db :
        /\ db[id].secretKey \in Keys
        /\ db[id].refreshSecretKey \in Keys

C20_Witness ==
    /\ DOMAIN db = UserIds
    /\ last.op = "updateUser"
    /\ last.res = Ok
    /\ \E id \in DOMAIN db : db[id].password = Hash("p2") /\ ~db[id].isActive
    /\ \E tok \in issued : tok.typ = "refresh"

\* C22: refresh, revoke and logout presented with a token whose subject is
\* not stored fail with the same "Invalid refresh token" error as a token of
\* a stored subject with a bad signature, return nothing and change no stored
\* user.
C22_UnknownSubjectIsInvalidToken ==
    [][(last'.op \in {"refresh", "revoke", "logout"} /\ last'.tok.fmt = "jwt") =>
        LET sub == last'.tok.sub IN
        /\ sub \notin DOMAIN db =>
            /\ last'.res = InvalidRefreshToken
            /\ last'.out = {}
            /\ db' = db
        /\ (sub \in DOMAIN db /\ last'.tok.key # db[sub].refreshSecretKey) =>
            last'.res = InvalidRefreshToken]_vars

C22_Witness ==
    /\ last.op = "revoke"
    /\ last.tok.fmt = "jwt"
    /\ last.tok.sub = GhostId
    /\ last.res = InvalidRefreshToken
    /\ DOMAIN db # {}

\* C24: right after a successful login the returned access token is reported
\* active by introspect and the returned refresh token is accepted by refresh.
C24_LoginTokensVerify ==
    (last.op = "login" /\ last.res = Ok) =>
        /\ \E tok \in last.out : tok.typ = "access"
        /\ \E tok \in last.out : tok.typ = "refresh"
        /\ \A tok \in last.out :
            IF tok.typ = "access"
            THEN introspectToken(db, tok, now).res.active
            ELSE refreshToken(db, tok, now).res = Ok

C24_Witness ==
    /\ last.op = "login"
    /\ last.res = Ok
    /\ Cardinality(last.out) = 2

\* C25: refresh, revoke and logout presented with an unexpired access token
\* that verifies under its user's access key fail with "Invalid refresh
\* token" and leave both keys of every user as they were; introspect
\* presented with a refresh token never reports it active.
C25_AccessTokenIsNoRefreshToken ==
    [][/\ (/\ last'.op \in {"refresh", "revoke", "logout"}
           /\ last'.tok.typ = "access"
           /\ verifyAccessToken(db, last'.tok, last'.tok.sub, now)) =>
            /\ last'.res = InvalidRefreshToken
            /\ last'.out = {}
            /\ \A id \in DOMAIN db :
                /\ db'[id].secretKey = db[id].secretKey
                /\ db'[id].refreshSecretKey = db[id].refreshSecretKey
       /\ (last'.op = "introspect" /\ last'.tok.typ = "refresh") =>
            ~last'.res.active]_vars

C25_Witness ==
    /\ last.op = "refresh"
    /\ last.tok.typ = "access"
    /\ last.tok \in issued
    /\ verifyAccessToken(db, last.tok, last.tok.sub, now)
    /\ last.res = InvalidRefreshToken

\* C26: for a deactivated user, introspect never reports one of the user's
\* access tokens active and refresh never returns a new pair.
C26_DeactivatedUserIsRegated ==
    LET sub == last.tok.sub IN
    (last.op \in {"introspect", "refresh"} /\ sub \in DOMAIN db /\ ~db[sub].isActive) =>
        /\ ~last.res.active
        /\ last.out = {}

\* C27: a refresh, revoke, logout or adminRevokeAllTokens that fails leaves
\* the access key and the refresh key of every stored user as they were.
C27_FailedCallKeepsKeys ==
    [][(/\ last'.op \in {"refresh", "revoke", "logout", "adminRevoke"}
        /\ last'.res # Ok) =>
            /\ DOMAIN db' = DOMAIN db
            /\ \A id \in DOMAIN db :
                /\ db'[id].secretKey = db[id].secretKey
                /\ db'[id].refreshSecretKey = db[id].refreshSecretKey]_vars

C27_Witness ==
    /\ last.op = "logout"
    /\ last.res = InvalidRefreshToken
    /\ last.tok.fmt = "jwt"
    /\ last.tok.sub \in DOMAIN db
    /\ last.tok.key = ForgedKey

\* C30: a successful activate() leaves the account active with no failed
\* attempts counted, no lockedUntil and no lockReason, hence not locked,
\* whatever the lockout state was before.
C30_ActivateClearsLockout ==
    [][(last'.op = "user.activate" /\ last'.res = Ok) =>
        /\ account'.authStatus = "active"
        /\ account'.failedLoginAttempts = 0
        /\ account'.lockedUntil = NoTime
        /\ account'.lockReason = None
        /\ ~isLocked(account', now')]_vars

C30_Witness ==
    /\ last.op = "user.activate"
    /\ last.res = Ok
    /\ last.before >= LockThreshold
    /\ account.authStatus = "active"

\* C23 (as stated): a token created with the default duration of its type
\* lives 1 hour (access) or 7 days (refresh), the defaults of password-reset
\* and e-mail-verification tokens are 15 minutes and 24 hours, a duration
\* string N followed by s, m, h or d gives N times 1, 60, 3600 or 86400
\* seconds, and every other duration is rejected with an error.
C23_DurationOrError ==
    /\ calculateExpiration(DEFAULT_TOKEN_CONFIG["reset_password"], now).at - now = 900
    /\ calculateExpiration(DEFAULT_TOKEN_CONFIG["email_verification"], now).at - now = 86400
    /\ last.op \in {"createAccessToken", "createRefreshToken"} =>
        LET seconds == (<<"3", "0", "s">> :> 30) @@ (<<"1", "5", "m">> :> 900)
                        @@ (<<"2", "h">> :> 7200) @@ (<<"0", "7", "d">> :> 604800)
                        @@ (<<"1", "h">> :> 3600) @@ (<<"7", "d">> :> 604800)
            lifetime == authToken.expiresAt - authToken.issuedAt
            wellFormed == last.code.kind = "string" /\ last.code.chars \in DOMAIN seconds
        IN /\ last.repeat =>
                /\ last.res = Ok
                /\ lifetime = IF last.op = "createAccessToken" THEN 3600 ELSE 604800
           /\ wellFormed => (last.res = Ok /\ lifetime = seconds[last.code.chars])
           /\ ~wellFormed => last.res = InvalidExpiration

\* C23 (amended): as above, except that a duration given as a number is taken
\* as that many seconds; only a string that is not N followed by s, m, h or d
\* is rejected with an error.
C23_DurationNumberOrError ==
    /\ calculateExpiration(DEFAULT_TOKEN_CONFIG["reset_password"], now).at - now = 900
    /\ calculateExpiration(DEFAULT_TOKEN_CONFIG["email_verification"], now).at - now = 86400
    /\ last.op \in {"createAccessToken", "createRefreshToken"} =>
        LET seconds == (<<"3", "0", "s">> :> 30) @@ (<<"1", "5", "m">> :> 900)
                        @@ (<<"2", "h">> :> 7200) @@ (<<"0", "7", "d">> :> 604800)
                        @@ (<<"1", "h">> :> 3600) @@ (<<"7", "d">> :> 604800)
            lifetime == authToken.expiresAt - authToken.issuedAt
            wellFormed == last.code.kind = "string" /\ last.code.chars \in DOMAIN seconds
        IN /\ last.repeat =>
                /\ last.res = Ok
                /\ lifetime = IF last.op = "createAccessToken" THEN 3600 ELSE 604800
           /\ wellFormed => (last.res = Ok /\ lifetime = seconds[last.code.chars])
           /\ last.code.kind = "number" => (last.res = Ok /\ lifetime = last.code.value)
           /\ (last.code.kind = "string" /\ ~wellFormed) => last.res = InvalidExpiration

C23_Witness ==
    /\ last.op = "createRefreshToken"
    /\ last.code = Seconds(90)
    /\ last.res = Ok
    /\ authToken.issuedAt > 0
    /\ authToken.type = "refresh"

----------------------------------------------------------------------------
(* AuthService handlers, one await at a time.  A call in flight keeps what
   the handler holds in its local variables: the entity it read (user), the
   keys its token was verified under (seen), the durable updates it has
   issued (writes) and, once it has finished, its outcome (res, out).  pc is
   the await the handler performs next; met is, for a refresh, the rotation
   another caller completed between its verification and its signing. *)

NoUser == [id |-> None]

Rotates == {"logout", "revoke", "adminRevoke"}

Call(op, tok, email, password, code, id) ==
    [op |-> op, pc |-> "start", tok |-> tok, email |-> email, password |-> password,
     code |-> code, id |-> id, user |-> NoUser,
     seen |-> [secretKey |-> NoKey, refreshSecretKey |-> NoKey], writes |-> 0,
     met |-> None, res |-> Ok, out |-> {}]

At(c, d) == [call |-> c, db |-> d]

\* the handler throws (or returns early with `r`)
Ends(c, d, r) == At([c EXCEPT !.pc = "done", !.res = r], d)

\* await registrationRepository.update(user.id, user)
Writes(c, d) ==
    At([c EXCEPT !.pc = "done", !.writes = @ + 1], update(d, c.user.id, c.user))

\* await verifyRefreshToken(token, decoded.sub): its own findById, then verifyAsync
verifyRefreshTokenStep(c, d, t) ==
    IF ~RefreshTokenAccepted(d, c.tok, t) THEN Ends(c, d, InvalidRefreshToken)
    ELSE At([c EXCEPT !.pc = "find",
                      !.seen = [secretKey |-> d[c.tok.sub].secretKey,
                                refreshSecretKey |-> d[c.tok.sub].refreshSecretKey]], d)

loginSteps(c, d, t) ==
    CASE c.pc = "start" ->
            LET found == findByEmail(d, c.email) IN
            IF found = {} THEN Ends(c, d, InvalidCredentials)
            ELSE At([c EXCEPT !.pc = "compare", !.user = CHOOSE u \in found : TRUE], d)
      [] c.pc = "compare" ->
            IF ~Compare(c.password, c.user.password) THEN Ends(c, d, InvalidCredentials)
            ELSE IF ~c.user.isActive THEN Ends(c, d, AccountDeactivated)
            ELSE At([c EXCEPT !.pc = "done", !.out = generateTokens(c.user, t)], d)
      [] OTHER -> At(c, d)

refreshTokenSteps(c, d, t) ==
    CASE c.pc = "start" -> verifyRefreshTokenStep(c, d, t)
      [] c.pc = "find" ->
            LET found == findById(d, c.tok.sub) IN
            IF found = {} THEN Ends(c, d, InvalidRefreshToken)
            ELSE LET user == CHOOSE u \in found : TRUE IN
                 IF ~user.isActive THEN Ends(c, d, InvalidRefreshToken)
                 ELSE At([c EXCEPT !.pc = "done", !.user = user,
                                   !.out = generateTokens(user, t)], d)
      [] OTHER -> At(c, d)

revokeRefreshTokenSteps(c, d, t) ==
    CASE c.pc = "start" -> verifyRefreshTokenStep(c, d, t)
      [] c.pc = "find" ->
            LET found == findById(d, c.tok.sub) IN
            IF found = {} THEN Ends(c, d, InvalidRefreshToken)
            ELSE LET user == CHOOSE u \in found : TRUE IN
                 At([c EXCEPT !.pc = "write",
                              !.user = regenerateRefreshSecretKey(user, UsedKeys(d))], d)
      [] c.pc = "write" -> Writes(c, d)
      [] OTHER -> At(c, d)

\* variant: the two rotated keys are stored by one update each
logoutSteps_keyByKey(c, d, t) ==
    CASE c.pc = "start" -> verifyRefreshTokenStep(c, d, t)
      [] c.pc = "find" ->
            LET found == findById(d, c.tok.sub) IN
            IF found = {} THEN Ends(c, d, InvalidRefreshToken)
            ELSE LET user == CHOOSE u \in found : TRUE
                     r1 == regenerateSecretKey(user, UsedKeys(d))
                 IN At([c EXCEPT !.pc = "write",
                                 !.user = regenerateRefreshSecretKey(
                                              r1, UsedKeys(d) \cup {r1.secretKey})], d)
      [] c.pc = "write" ->
            At([c EXCEPT !.pc = "writeRefreshKey", !.writes = @ + 1],
               update(d, c.user.id, [secretKey |-> c.user.secretKey]))
      [] c.pc = "writeRefreshKey" ->
            At([c EXCEPT !.pc = "done", !.writes = @ + 1],
               update(d, c.user.id, [refreshSecretKey |-> c.user.refreshSecretKey]))
      [] OTHER -> At(c, d)

logoutSteps(c, d, t) ==
    CASE c.pc = "start" -> verifyRefreshTokenStep(c, d, t)
      [] c.pc = "find" ->
            LET found == findById(d, c.tok.sub) IN
            IF found = {} THEN Ends(c, d, InvalidRefreshToken)
            ELSE LET user == CHOOSE u \in found : TRUE
                     r1 == regenerateSecretKey(user, UsedKeys(d))
                 IN At([c EXCEPT !.pc = "write",
                                 !.user = regenerateRefreshSecretKey(
                                              r1, UsedKeys(d) \cup {r1.secretKey})], d)
      [] c.pc = "write" -> Writes(c, d)
      [] OTHER -> At(c, d)

revokeAllRefreshTokensSteps(c, d, t) ==
    CASE c.pc = "start" ->
            LET found == findById(d, c.id) IN
            IF found = {} THEN Ends(c, d, UserNotFound)
            ELSE LET user == CHOOSE u \in found : TRUE IN
                 At([c EXCEPT !.pc = "write",
                              !.user = regenerateRefreshSecretKey(user, UsedKeys(d))], d)
      [] c.pc = "write" -> Writes(c, d)
      [] OTHER -> At(c, d)

requestRenewSignaturesSteps(c, d, t) ==
    CASE c.pc = "start" ->
            LET found == findByEmail(d, c.email) IN
            IF found = {} THEN Ends(c, d, Ok)
            ELSE LET user == CHOOSE u \in found : TRUE IN
                 IF ~user.isActive THEN Ends(c, d, Ok)
                 ELSE At([c EXCEPT !.pc = "write",
                                   !.user = [user EXCEPT
                                       !.renewalVerificationToken = c.code,
                                       !.renewalVerificationTokenExpiresAt = t + RenewalTtl]], d)
      [] c.pc = "write" -> Writes(c, d)
      [] OTHER -> At(c, d)

confirmRenewSignaturesSteps(c, d, t) ==
    CASE c.pc = "start" ->
            LET found == findByEmail(d, c.email) IN
            IF found = {} THEN Ends(c, d, UserNotFound)
            ELSE LET user == CHOOSE u \in found : TRUE IN
                 IF ~user.isActive THEN Ends(c, d, AccountDeactivated)
                 ELSE IF user.renewalVerificationToken = None
                         \/ user.renewalVerificationTokenExpiresAt = NoTime
                      THEN Ends(c, d, NoRenewalRequested)
                 ELSE IF user.renewalVerificationToken # c.code THEN Ends(c, d, InvalidCode)
                 ELSE IF t > user.renewalVerificationTokenExpiresAt
                      THEN Ends(c, d, CodeExpired)
                 ELSE At([c EXCEPT !.pc = "hash", !.user = user], d)
      [] c.pc = "hash" ->
            LET r1 == regenerateSecretKey(c.user, UsedKeys(d))
                r2 == regenerateRefreshSecretKey(r1, UsedKeys(d) \cup {r1.secretKey})
            IN At([c EXCEPT !.pc = "write",
                            !.user = [r2 EXCEPT
                                !.password = Hash(c.password),
                                !.renewalVerificationToken = None,
                                !.renewalVerificationTokenExpiresAt = NoTime]], d)
      [] c.pc = "write" -> Writes(c, d)
      [] OTHER -> At(c, d)

----------------------------------------------------------------------------
(* Calls in flight: each caller runs one handler, await by await, while the
   other caller and the registration endpoints run in between *)

Requests ==
    {Call("login", Garbage, email, password, None, None) :
        email \in Emails, password \in Passwords}
        \cup {Call(op, tok, None, None, None, None) :
                op \in {"refresh", "revoke", "logout"}, tok \in Presentable}
        \cup {Call("adminRevoke", Garbage, None, None, None, id) : id \in UserIds \cup {GhostId}}
        \cup {Call("request", Garbage, email, None, code, None) :
                email \in Emails, code \in RenewalCodes}
        \cup {Call("confirm", Garbage, email, "p2", code, None) :
                email \in Emails, code \in RenewalCodes}

Begin ==
    \E caller \in Callers, c \in Requests :
        /\ calls[caller] = Idle
        /\ calls' = [calls EXCEPT ![caller] = c]
        /\ last' = Plain("await", None, Out(db, Ok, {}))
        /\ UNCHANGED <<db, issued, now, account, verif, authToken>>

\* the next await of the handler `op` that `caller` runs; `r` is what it does
Advance(caller, op, r) ==
    /\ calls[caller].op = op
    /\ calls[caller].pc # "done"
    /\ Cardinality(issued \cup r.call.out) <= MaxIssued
    /\ calls' = [calls EXCEPT ![caller] =
                    [r.call EXCEPT !.met = IF /\ op = "refresh"
                                              /\ calls[caller].pc = "find"
                                              /\ last.op \in Rotates
                                              /\ last.res = Ok
                                           THEN last.op ELSE None]]
    /\ db' = r.db
    /\ issued' = issued \cup r.call.out
    /\ last' = Plain("await", None, Out(db, Ok, {}))
    /\ UNCHANGED <<now, account, verif, authToken>>

\* the response is sent
Return ==
    \E caller \in Callers :
        /\ calls[caller] # Idle
        /\ calls[caller].pc = "done"
        /\ calls' = [calls EXCEPT ![caller] = Idle]
        /\ UNCHANGED <<db, issued, now, last, account, verif, authToken>>

\* the request is dropped between two awaits (the process dies, the client goes away)
Abandon ==
    \E caller \in Callers :
        /\ calls[caller] # Idle
        /\ calls[caller].pc # "done"
        /\ calls' = [calls EXCEPT ![caller] = Idle]
        /\ UNCHANGED <<db, issued, now, last, account, verif, authToken>>

\* one user has registered
InitSteps ==
    /\ db = register([i \in {} |-> None], "u1", "a@x", "p1").db
    /\ issued = {}
    /\ now = 0
    /\ last = Plain("init", None, Out(db, Ok, {}))
    /\ account = User([email |-> "a@x"])
    /\ verif = registerVerification([i \in {} |-> None], "u1", "v1", 0)
    /\ authToken = NoAuthToken
    /\ calls = [c \in Callers |-> Idle]

NextSteps ==
    \/ Logout
    \/ Revoke
    \/ AdminRevoke
    \/ ConfirmRenew
    \/ Deactivate
    \/ Reactivate
    \/ UpdateUser
    \/ Begin
    \/ \E caller \in Callers : Advance(caller, "login", loginSteps(calls[caller], db, now))
    \/ \E caller \in Callers :
        Advance(caller, "refresh", refreshTokenSteps(calls[caller], db, now))
    \/ \E caller \in Callers :
        Advance(caller, "revoke", revokeRefreshTokenSteps(calls[caller], db, now))
    \/ \E caller \in Callers : Advance(caller, "logout", logoutSteps(calls[caller], db, now))
    \/ \E caller \in Callers :
        Advance(caller, "adminRevoke", revokeAllRefreshTokensSteps(calls[caller], db, now))
    \/ \E caller \in Callers :
        Advance(caller, "request", requestRenewSignaturesSteps(calls[caller], db, now))
    \/ \E caller \in Callers :
        Advance(caller, "confirm", confirmRenewSignaturesSteps(calls[caller], db, now))
    \/ Return
    \/ Abandon

SpecSteps == InitSteps /\ [][NextSteps]_vars

----------------------------------------------------------------------------
(* Properties of the handlers taken one await at a time *)

\* C21: each of login, refresh, revoke, logout, adminRevokeAllTokens, request
\* and confirm issues at most one durable update, and only that update changes
\* the stored users; leaving the call at any await changes nothing, so the
\* stored user is entirely in its state before or after the operation: never
\* one of the two keys rotated without the other by logout or confirm, never
\* a new password stored by confirm with the old keys.
C21_OneDurableUpdate ==
    [][\A caller \in Callers :
        LET c == calls[caller]
            next == calls'[caller]
        IN (c # Idle /\ next # c) =>
            IF next = Idle THEN db' = db
            ELSE /\ next.writes <= 1
                 /\ next.writes \in {c.writes, c.writes + 1}
                 /\ next.writes = c.writes => db' = db
                 /\ (next.writes = c.writes + 1 /\ c.op \in {"logout", "confirm"}) =>
                        LET before == db[c.user.id]
                            after == db'[c.user.id]
                        IN /\ (after.secretKey = before.secretKey)
                                <=> (after.refreshSecretKey = before.refreshSecretKey)
                           /\ (c.op = "confirm" /\ after.password # before.password) =>
                                after.secretKey # before.secretKey]_vars

C21_Witness ==
    \E caller \in Callers :
        /\ calls[caller].op = "logout"
        /\ calls[caller].pc = "done"
        /\ calls[caller].writes = 1
        /\ calls[caller].res = Ok

C29_RotationWritesOnlyKeys ==
    [][\A caller \in Callers :
        LET c == calls[caller]
            next == calls'[caller]
        IN (c.op \in Rotates /\ next # Idle /\ c.pc = "write" /\ next.pc = "done") =>
            LET before == db[c.user.id]
                after == db'[c.user.id]
            IN /\ after.email = before.email
               /\ after.password = before.password
               /\ after.isActive = before.isActive
               /\ after.emailVerified = before.emailVerified]_vars

----------------------------------------------------------------------------
(* Properties of the User entity: flags, lockout *)

\* C31: a User built with default fields and changed only through activate,
\* deactivate, suspend, block, verifyEmail and the login-attempt methods is
\* never inactive or blocked with isActive true.
C31_OffStatusClearsFlag ==
    account.authStatus \in {"inactive", "blocked"} => ~account.isActive

C31_Witness ==
    /\ last.op = "user.block"
    /\ last.res = Ok
    /\ account.authStatus = "blocked"
    /\ ~account.emailVerified
    /\ ~account.isActive

\* C32: a User built with default fields and changed only through its own
\* methods is never active with isActive false; deactivate() followed by
\* activate() gives a user that can authenticate when it is not locked.
C32_ActiveStatusHasFlag ==
    /\ account.authStatus = "active" => account.isActive
    /\ (last.op = "user.activate" /\ last.res = Ok /\ ~isLocked(account, now)) =>
            canAuthenticate(account, now)

\* C33: recordFailedLogin adds exactly one to failedLoginAttempts; it sets
\* lockedUntil to 30 minutes after the call with reason
\* multiple_failed_attempts exactly when the new count is at least 5, and
\* below 5 leaves lockedUntil and lockReason as they were; no other method
\* called here sets lockedUntil.
C33_LockAtFiveFailures ==
    [][/\ last'.op = "user.recordFailedLogin" =>
            /\ account'.failedLoginAttempts = account.failedLoginAttempts + 1
            /\ account'.failedLoginAttempts >= 5 =>
                    /\ account'.lockedUntil = now + 30 * 60
                    /\ account'.lockReason = "multiple_failed_attempts"
            /\ account'.failedLoginAttempts < 5 =>
                    /\ account'.lockedUntil = account.lockedUntil
                    /\ account'.lockReason = account.lockReason
       /\ last'.op # "user.recordFailedLogin" =>
            account'.lockedUntil \in {account.lockedUntil, NoTime}]_vars

C33_Witness ==
    /\ last.op = "user.recordFailedLogin"
    /\ account.failedLoginAttempts = 5
    /\ now > 0
    /\ account.lockedUntil = now + 30 * 60

\* C34: recordFailedLogin and recordSuccessfulLogin never change authStatus
\* or isActive; recordSuccessfulLogin changes only lastLoginAt, lastLoginIp
\* and failedLoginAttempts (to 0), so lockedUntil and lockReason stay.
C34_LoginAttemptsLeaveStatus ==
    [][/\ last'.op \in {"user.recordFailedLogin", "user.recordSuccessfulLogin"} =>
            /\ account'.authStatus = account.authStatus
            /\ account'.isActive = account.isActive
       /\ last'.op = "user.recordSuccessfulLogin" =>
            /\ account'.failedLoginAttempts = 0
            /\ account'.lastLoginAt = now
            /\ account' = [account EXCEPT !.lastLoginAt = account'.lastLoginAt,
                                           !.lastLoginIp = account'.lastLoginIp,
                                           !.failedLoginAttempts = 0]]_vars

C34_Witness ==
    /\ last.op = "user.recordSuccessfulLogin"
    /\ account.failedLoginAttempts = 0
    /\ account.lastLoginIp # None
    /\ isLocked(account, now)
    /\ account.lockReason = "multiple_failed_attempts"

\* C35: isLocked is true exactly when lockedUntil is set and the clock is
\* strictly before it: at the instant lockedUntil and after it an active
\* user with isActive true can authenticate, no method having cleared the
\* field, and the passing of time leaves the user as it was.
C35_LockEndsWithTime ==
    [][/\ isLocked(account, now) <=> (account.lockedUntil # NoTime /\ now < account.lockedUntil)
       /\ account.lockedUntil # NoTime =>
            /\ ~isLocked(account, account.lockedUntil)
            /\ isLocked(account, account.lockedUntil - 1)
       /\ (account.lockedUntil # NoTime /\ now >= account.lockedUntil
                /\ account.authStatus = "active" /\ account.isActive) =>
            canAuthenticate(account, now)
       /\ last'.op = "tick" => account' = account]_vars

C35_Witness ==
    /\ last.op = "tick"
    /\ account.lockedUntil # NoTime
    /\ now >= account.lockedUntil
    /\ account.failedLoginAttempts >= 5
    /\ canAuthenticate(account, now)

----------------------------------------------------------------------------
(* Properties of the verification token *)

\* C37: when resendVerification issues a new token for an unverified user,
\* the token stored before no longer verifies that user and the new one does;
\* a user never has two tokens that are found for them; resendVerification
\* for a verified user fails and leaves the stored users and tokens alone.
C37_ResendReplacesToken ==
    [][/\ \A id \in DOMAIN verif' :
            Cardinality({token \in VerificationTokens :
                            id \in findByVerificationToken(verif', token)}) <= 1
       /\ last'.op = "resendVerification" =>
            \A id \in {i \in DOMAIN db : db[i].email = last'.email} :
                LET old == verif[id].verificationToken IN
                IF db[id].emailVerified
                THEN last'.res = AlreadyVerified /\ db' = db /\ verif' = verif
                ELSE /\ last'.res = Ok
                     /\ verif'[id].verificationToken = last'.code
                     /\ last'.code # old
                     /\ id \notin findByVerificationToken(verif', old)
                     /\ RegistrationService_verifyEmail(db', verif', old, now').res # Ok
                     /\ RegistrationService_verifyEmail(db', verif', last'.code, now').res = Ok]_vars

C37_Witness ==
    /\ last.op = "resendVerification"
    /\ last.res = Ok
    /\ now > 0
    /\ \E id \in DOMAIN verif :
            /\ db[id].email = last.email
            /\ verif[id].verificationToken = last.code
            /\ verif[id].verificationTokenExpiresAt = now + 24 * 3600

----------------------------------------------------------------------------
(* The three token slots: e-mail verification, password reset, renewal *)

SetEmailVerificationToken ==
    \E token \in RenewalCodes \cup {"v1"} :
        /\ account' = setEmailVerificationToken(account, token, 24, now)
        /\ last' = [Called("user.setEmailVerificationToken", Ok) EXCEPT !.code = token]
        /\ UNCHANGED <<db, issued, now, verif, authToken, calls>>

SetPasswordResetToken ==
    \E token \in RenewalCodes \cup {"v1"} :
        /\ account' = setPasswordResetToken(account, token, 15, now)
        /\ last' = [Called("user.setPasswordResetToken", Ok) EXCEPT !.code = token]
        /\ UNCHANGED <<db, issued, now, verif, authToken, calls>>

CompletePasswordReset ==
    \E newPassword \in Passwords :
        /\ account' = completePasswordReset(account, newPassword)
        /\ last' = Called("user.completePasswordReset", Ok)
        /\ UNCHANGED <<db, issued, now, verif, authToken, calls>>

NextSlots ==
    \/ SetEmailVerificationToken
    \/ VerifyEmailOfUser
    \/ SetPasswordResetToken
    \/ CompletePasswordReset
    \/ RequestRenew
    \/ ConfirmRenew
    \/ VerifyEmail
    \/ Tick

SpecSlots == InitSteps /\ [][NextSlots]_vars

----------------------------------------------------------------------------
(* Properties of the life of an AuthToken *)

\* C38: a token that is invalid because it has expired or was revoked is
\* still invalid after any call of markAsUsed, revoke or extend.
C38_InvalidTokenStaysInvalid ==
    [][(/\ last'.op \in {"markAsUsed", "revoke", "extend"}
        /\ authToken.isRevoked \/ isExpired(authToken, now)) =>
            ~isValid(authToken', now')]_vars

\* C39: extend(minutes) succeeds exactly for a refresh token that is not
\* revoked and then moves expiresAt by the given number of minutes, every
\* other field staying; for another type or a revoked token it fails with an
\* error and leaves the token as it was.
C39_ExtendOnlyLiveRefreshTokens ==
    [][last'.op = "extend" =>
        IF authToken.type = "refresh" /\ ~authToken.isRevoked
        THEN /\ last'.res = Ok
             /\ authToken'.expiresAt - authToken.expiresAt = last'.run * 60
             /\ authToken' = [authToken EXCEPT !.expiresAt = authToken'.expiresAt]
        ELSE /\ last'.res.kind = "Error"
             /\ authToken' = authToken]_vars

C39_Witness ==
    /\ last.op = "extend"
    /\ last.res = Ok
    /\ last.run = 60
    /\ authToken.type = "refresh"
    /\ authToken.lastUsedAt # NoTime
    /\ authToken.expiresAt - authToken.issuedAt = 7 * 86400 + 3600
====
